---------------------------- MODULE Spec2Model ----------------------------
(***************************************************************************)
(* Model of the free5GC AMF operator charm (src/src/charm.py).             *)
(*                                                                         *)
(* The charm has three event handlers: _on_config_changed, _on_remove and  *)
(* _on_free5gc_amf_pebble_ready.  Handlers run one at a time; a handler is *)
(* one action.  The cluster API, the workload container and the event      *)
(* dispatcher are the environment: their answers are the inputs of the     *)
(* actions.  Every call a handler issues is logged in `calls`, so that     *)
(* statements about the calls of a pass are statements about the state.    *)
(***************************************************************************)
EXTENDS Naturals, Sequences, FiniteSets

VARIABLES
    config,       \* self.model.config: [ngap_ip, ngap_gateway, interface]
    conn,         \* what self._container.can_connect() answers
    configFile,   \* content of /free5gc/config/amfcfg.yaml, or Absent
    nad,          \* the NetworkAttachmentDefinition n2network-amf, or Absent
    annotations,  \* pod-template annotations of the StatefulSet: key -> value
    layer,        \* the pebble layer "free5gc-amf" of the container, or Absent
    replans,      \* whether the container has been asked to replan
    status,       \* self.unit.status
    pending,      \* events the dispatcher still has to deliver (deferred ones)
    calls,        \* log of the calls issued by the last handler pass
    last,         \* [handler, outcome] of the last handler pass
    budget        \* triggers and connection losses left (bounded behaviours)

vars == <<config, conn, configFile, nad, annotations, layer, replans, status,
          pending, calls, last, budget>>

\* an optional value is the empty set or the set of its one value
Absent == {}
Some(v) == {v}

(***************************************************************************)
(* Program constants.                                                      *)
(***************************************************************************)
BASE_CONFIG_PATH == "/free5gc/config"
CONFIG_FILE_NAME == "amfcfg.yaml"
NETWORK_ATTACHMENT_DEFINITION_NAME == "n2network-amf"
MultusKey == "k8s.v1.cni.cncf.io/networks"
ConfigFilePath == <<BASE_CONFIG_PATH, "/", CONFIG_FILE_NAME>>

WaitingContainer == "Waiting for container to be ready"
WaitingConfigFile == "Waiting for config file to be written"
ActiveStatus == "active"
NoStatus == "unknown"

(***************************************************************************)
(* Configuration values.  A CIDR is the sequence of its parts, so that     *)
(* split("/")[0] is computed and not assumed.                              *)
(***************************************************************************)
Cidrs == {<<"10.0.0.5", "/", "24">>, <<"10.0.0.6", "/", "24">>}
Gateways == {"10.0.0.1", "10.0.0.254"}
Interfaces == {"eth0", "eth1"}
ConfigA ==
    [ngap_ip |-> <<"10.0.0.5", "/", "24">>, ngap_gateway |-> "10.0.0.1",
     interface |-> "eth1"]
\* the configurations tried: ConfigA, ConfigA with another gateway, and one
\* that differs from ConfigA in every value
Configs ==
    {c \in [ngap_ip : Cidrs, ngap_gateway : Gateways, interface : Interfaces] :
        \/ c = ConfigA
        \/ c = [ConfigA EXCEPT !.ngap_gateway = "10.0.0.254"]
        \/ /\ c.ngap_ip # ConfigA.ngap_ip
           /\ c.ngap_gateway # ConfigA.ngap_gateway
           /\ c.interface # ConfigA.interface}

config_ngap_cidr(c) == c.ngap_ip
config_ngap_gateway(c) == c.ngap_gateway
config_interface(c) == c.interface

\* str.split("/")[0]: the part of s before its first "/"
RECURSIVE SplitHead(_)
SplitHead(s) ==
    IF s = <<>> \/ Head(s) = "/" THEN <<>>
    ELSE <<Head(s)>> \o SplitHead(Tail(s))

\* template.render(ngap_ip_address=...)
Render(ip) == [template |-> "amfcfg.yaml.j2", ngap_ip_address |-> ip]

\* the object _create_network_attachement_definition builds
NadObject(c) ==
    [name |-> NETWORK_ATTACHMENT_DEFINITION_NAME,
     cniVersion |-> "0.3.1",
     plugins |-> <<[type |-> "macvlan", master |-> config_interface(c),
                    mode |-> "bridge", ipam |-> "static",
                    routes |-> <<[dst |-> "0.0.0.0/0",
                                  gw |-> config_ngap_gateway(c)]>>],
                   [type |-> "tuning"]>>]

\* the list _add_statefulset_pod_network_annotation serialises
MultusAnnotation(c) ==
    <<[name |-> NETWORK_ATTACHMENT_DEFINITION_NAME, interface |-> "n2",
       ips |-> config_ngap_cidr(c), gateway |-> config_ngap_gateway(c)]>>

\* the layer _pebble_layer returns
PebbleLayer ==
    [service |-> "free5gc-amf", override |-> "replace", startup |-> "enabled",
     command |-> <<"./amf", "-c", ConfigFilePath>>,
     environment |-> [GIN_MODE |-> "release"]]

AnnotationKeys == {MultusKey, "juju.is/version"}
InitialAnnotations ==
    [k \in AnnotationKeys |-> IF k = MultusKey THEN Absent ELSE Some("3.1")]

Events == {"config_changed", "pebble_ready"}


(***************************************************************************)
(* A handler pass.  The pass record holds what the handler reads and       *)
(* writes, the log of its calls and its outcome: "run" while it runs, then *)
(* "ok" (returned), "defer" (returned after event.defer()), "error" (an    *)
(* exception left the handler) or "crash" (the charm process died).        *)
(***************************************************************************)
Start ==
    [conn |-> conn, configFile |-> configFile, nad |-> nad,
     annotations |-> annotations, layer |-> layer, replans |-> replans,
     status |-> status, calls |-> <<>>, out |-> "run"]

Log(p, op, res) == [p EXCEPT !.calls = Append(@, [op |-> op, res |-> res])]
Raise(p) == [p EXCEPT !.out = "error"]
\* the charm process dies right after the call `at` when the environment says so
Crash(p, at, fault) == IF fault = at THEN [p EXCEPT !.out = "crash"] ELSE p
Return(p) == IF p.out = "run" THEN [p EXCEPT !.out = "ok"] ELSE p

\* self.unit.status = WaitingStatus(msg); event.defer(); return
Defer(p, msg) == [p EXCEPT !.status = msg, !.out = "defer"]

\* what the environment may do to a config-changed pass: fail one of its
\* calls, kill the process right after one of its writes, or have another
\* actor edit the StatefulSet between the pass's read of it and its patch
CCFaults ==
    {"none", "render", "push", "create_nad", "get_sts", "get_sts2", "patch_sts",
     "crash_push", "crash_create", "crash_patch", "ext_edit"}
PRFaults == {"none", "add_layer", "replan"}

\* what client.get(res=NetworkAttachmentDefinition, ...) answers
GetNadAnswer(p, apiErr) ==
    IF apiErr THEN "Error" ELSE IF p.nad = Absent THEN "NotFound" ELSE "ok"

\* what client.create(obj=nad, ...) answers
CreateNadAnswer(p, fault) ==
    IF fault = "create_nad" THEN "Error"
    ELSE IF p.nad # Absent THEN "AlreadyExists" ELSE "ok"

\* what client.delete(res=NetworkAttachmentDefinition, ...) answers
DeleteNadAnswer(p, apiErr) ==
    IF apiErr THEN "Error" ELSE IF p.nad = Absent THEN "NotFound" ELSE "ok"

\* a JSON merge patch: the keys the patch holds replace those of the target
MergePatch(target, patch) ==
    [k \in DOMAIN target |-> IF patch[k] # Absent THEN patch[k] ELSE target[k]]

\* the property _network_attachment_definition_created, given the answer of
\* the get: its value, and whether it raises
network_attachment_definition_created(answer) ==
    CASE answer = "ok" -> [value |-> TRUE, raised |-> FALSE]
      [] answer = "NotFound" -> [value |-> FALSE, raised |-> FALSE]
      [] OTHER -> [value |-> FALSE, raised |-> FALSE]

\* "k8s.v1.cni.cncf.io/networks" in current_annotation
annotation_added_to_statefulset(current_annotation) ==
    current_annotation[MultusKey] # Absent

config_file_is_written_unchecked(p) == TRUE

config_file_is_written(p) == p.configFile # Absent

write_config_file_truncating(p, c, fault) ==
    IF fault = "render"
    THEN Raise([Log(p, "render", "Error") EXCEPT !.configFile = Absent])
    ELSE LET content == Render(SplitHead(config_ngap_cidr(c)))
             p1 == Log(p, "render", "ok")
         IN IF fault = "push" THEN Raise(Log(p1, "push", "Error"))
            ELSE Crash([Log(p1, "push", "ok") EXCEPT !.configFile = Some(content)],
                       "crash_push", fault)

write_config_file(p, c, fault) ==
    IF fault = "render" THEN Raise(Log(p, "render", "Error"))
    ELSE LET content == Render(SplitHead(config_ngap_cidr(c)))
             p1 == Log(p, "render", "ok")
         IN IF fault = "push" THEN Raise(Log(p1, "push", "Error"))
            ELSE Crash([Log(p1, "push", "ok") EXCEPT !.configFile = Some(content)],
                       "crash_push", fault)

create_network_attachement_definition(p, c, fault) ==
    LET answer == CreateNadAnswer(p, fault)
        p1 == Log(p, "create_nad", answer)
    IN IF answer = "ok"
       THEN Crash([p1 EXCEPT !.nad = Some(NadObject(c))], "crash_create", fault)
       ELSE Raise(p1)

delete_network_attachement_definition(p, apiErr) ==
    LET answer == DeleteNadAnswer(p, apiErr)
        p1 == Log(p, "delete_nad", answer)
    IN IF answer = "ok" THEN [p1 EXCEPT !.nad = Absent] ELSE Raise(p1)

\* another actor's edit of the StatefulSet: it changes an annotation the
\* StatefulSet already has
ExternalEdit(current_annotation) ==
    [current_annotation EXCEPT !["juju.is/version"] = Some("3.2")]

\* the StatefulSet as the cluster holds it when the patch arrives
AtPatch(p, fault) ==
    IF fault = "ext_edit" THEN Log([p EXCEPT !.annotations = ExternalEdit(@)],
                                   "external_edit", "ok")
    ELSE p

\* variant that patches with the one annotation only, not the object read
add_statefulset_pod_network_annotation_key_only(p, c, fault) ==
    IF fault = "get_sts2" THEN Raise(Log(p, "get_sts", "Error"))
    ELSE LET p1 == Log(p, "get_sts", "ok")
             patch == [k \in DOMAIN p.annotations |->
                          IF k = MultusKey THEN Some(MultusAnnotation(c)) ELSE Absent]
             p2 == AtPatch(p1, fault)
         IN IF fault = "patch_sts" THEN Raise(Log(p2, "patch_sts", "Error"))
            ELSE Crash([Log(p2, "patch_sts", "ok") EXCEPT
                           !.annotations = MergePatch(p2.annotations, patch)],
                       "crash_patch", fault)

add_statefulset_pod_network_annotation(p, c, fault) ==
    IF fault = "get_sts2" THEN Raise(Log(p, "get_sts", "Error"))
    ELSE LET p1 == Log(p, "get_sts", "ok")
             statefulset == [p.annotations EXCEPT ![MultusKey] = Some(MultusAnnotation(c))]
             p2 == AtPatch(p1, fault)
         IN IF fault = "patch_sts" THEN Raise(Log(p2, "patch_sts", "Error"))
            ELSE Crash([Log(p2, "patch_sts", "ok") EXCEPT
                           !.annotations = MergePatch(p2.annotations, statefulset)],
                       "crash_patch", fault)

\* variant that replaces an attachment whose spec is not the desired one
EnsureNad_reconciling(p, c, nadErr, fault) ==
    IF p.out # "run" THEN p
    ELSE LET answer == GetNadAnswer(p, nadErr)
             created == network_attachment_definition_created(answer)
             p1 == Log(p, "get_nad", answer)
         IN IF ~created.value
            THEN create_network_attachement_definition(p1, c, fault)
            ELSE [p1 EXCEPT !.nad = Some(NadObject(c))]

\* if not self._network_attachment_definition_created: create
EnsureNad(p, c, nadErr, fault) ==
    IF p.out # "run" THEN p
    ELSE LET answer == GetNadAnswer(p, nadErr)
             created == network_attachment_definition_created(answer)
             p1 == Log(p, "get_nad", answer)
         IN IF created.raised THEN Raise(p1)
            ELSE IF ~created.value
                 THEN create_network_attachement_definition(p1, c, fault)
                 ELSE p1

\* if not self._annotation_added_to_statefulset: add the annotation
EnsureAnnotation(p, c, fault) ==
    IF p.out # "run" THEN p
    ELSE IF fault = "get_sts" THEN Raise(Log(p, "get_sts", "Error"))
    ELSE LET p1 == Log(p, "get_sts", "ok")
         IN IF ~annotation_added_to_statefulset(p.annotations)
            THEN add_statefulset_pod_network_annotation(p1, c, fault)
            ELSE p1

\* variants of the handlers with a plausible slip each
on_config_changed_write_first(p, c, nadErr, fault) ==
    LET p1 == write_config_file(p, c, fault)
    IN IF ~p.conn THEN Defer(p1, WaitingContainer)
       ELSE Return(EnsureAnnotation(EnsureNad(p1, c, nadErr, fault), c, fault))

on_config_changed_annotation_first(p, c, nadErr, fault) ==
    IF ~p.conn THEN Defer(p, WaitingContainer)
    ELSE Return(EnsureNad(
                    EnsureAnnotation(write_config_file(p, c, fault), c, fault),
                    c, nadErr, fault))

on_config_changed_annotate_on_create(p, c, nadErr, fault) ==
    IF ~p.conn THEN Defer(p, WaitingContainer)
    ELSE LET p1 == EnsureNad(write_config_file(p, c, fault), c, nadErr, fault)
         IN IF \E i \in DOMAIN p1.calls : p1.calls[i].op = "create_nad"
            THEN Return(EnsureAnnotation(p1, c, fault))
            ELSE Return(p1)

on_config_changed_write_last(p, c, nadErr, fault) ==
    IF ~p.conn THEN Defer(p, WaitingContainer)
    ELSE LET p1 == EnsureAnnotation(EnsureNad(p, c, nadErr, fault), c, fault)
         IN IF p1.out # "run" THEN p1 ELSE Return(write_config_file(p1, c, fault))

on_config_changed_sets_active(p, c, nadErr, fault) ==
    IF ~p.conn THEN Defer(p, WaitingContainer)
    ELSE LET p1 == Return(EnsureAnnotation(EnsureNad(write_config_file(p, c, fault),
                                                     c, nadErr, fault), c, fault))
         IN IF p1.out = "ok" THEN [p1 EXCEPT !.status = ActiveStatus] ELSE p1

on_config_changed(p, c, nadErr, fault) ==
    IF ~p.conn THEN Defer(p, WaitingContainer)
    ELSE Return(EnsureAnnotation(
                    EnsureNad(write_config_file(p, c, fault), c, nadErr, fault),
                    c, fault))

on_remove_when_connected(p, apiErr) ==
    IF ~p.conn THEN Defer(p, WaitingContainer)
    ELSE Return(delete_network_attachement_definition(p, apiErr))

on_remove_with_annotation(p, apiErr) ==
    LET p1 == delete_network_attachement_definition(p, apiErr)
    IN IF p1.out # "run" THEN p1
       ELSE Return([p1 EXCEPT !.annotations[MultusKey] = Absent])

on_remove(p, apiErr) == Return(delete_network_attachement_definition(p, apiErr))

on_free5gc_amf_pebble_ready_no_file_check(p, fault) ==
    IF ~p.conn THEN Defer(p, WaitingContainer)
    ELSE IF fault = "add_layer" THEN Raise(Log(p, "add_layer", "Error"))
    ELSE LET p1 == [Log(p, "add_layer", "ok") EXCEPT !.layer = Some(PebbleLayer)]
         IN IF fault = "replan" THEN Raise(Log(p1, "replan", "Error"))
            ELSE [Log(p1, "replan", "ok") EXCEPT
                     !.replans = TRUE, !.status = ActiveStatus, !.out = "ok"]

on_free5gc_amf_pebble_ready_active_first(p, fault) ==
    IF ~p.conn THEN Defer(p, WaitingContainer)
    ELSE IF ~config_file_is_written(p) THEN Defer(p, WaitingConfigFile)
    ELSE LET p0 == [p EXCEPT !.status = ActiveStatus]
         IN IF fault = "add_layer" THEN Raise(Log(p0, "add_layer", "Error"))
            ELSE LET p1 == [Log(p0, "add_layer", "ok") EXCEPT !.layer = Some(PebbleLayer)]
                 IN IF fault = "replan" THEN Raise(Log(p1, "replan", "Error"))
                    ELSE [Log(p1, "replan", "ok") EXCEPT !.replans = TRUE, !.out = "ok"]

on_free5gc_amf_pebble_ready(p, fault) ==
    IF ~p.conn THEN Defer(p, WaitingContainer)
    ELSE IF ~config_file_is_written(p) THEN Defer(p, WaitingConfigFile)
    ELSE IF fault = "add_layer" THEN Raise(Log(p, "add_layer", "Error"))
    ELSE LET p1 == [Log(p, "add_layer", "ok") EXCEPT !.layer = Some(PebbleLayer)]
         IN IF fault = "replan" THEN Raise(Log(p1, "replan", "Error"))
            ELSE [Log(p1, "replan", "ok") EXCEPT
                     !.replans = TRUE, !.status = ActiveStatus, !.out = "ok"]

(***************************************************************************)
(* Actions.                                                                *)
(***************************************************************************)
\* the state the pass leaves
Commit(p, handler) ==
    /\ configFile' = p.configFile
    /\ nad' = p.nad
    /\ annotations' = p.annotations
    /\ layer' = p.layer
    /\ replans' = p.replans
    /\ status' = p.status
    /\ calls' = p.calls
    /\ last' = [handler |-> handler, outcome |-> p.out]
    /\ conn' = conn

\* a deferred event is delivered again; one that returned is done
Requeue(ev, p, redelivered) ==
    pending' = IF p.out = "defer" THEN pending \cup {ev}
               ELSE IF redelivered /\ p.out = "ok" THEN pending \ {ev}
               ELSE pending

\* a config-changed event, with the configuration c now in force
ConfigChanged(c, nadErr, fault) ==
    LET p == on_config_changed(Start, c, nadErr, fault)
    IN /\ config' = c
       /\ Commit(p, "config_changed")
       /\ Requeue("config_changed", p, FALSE)

\* a deferred config-changed event is delivered again
ConfigChangedAgain(nadErr, fault) ==
    LET p == on_config_changed(Start, config, nadErr, fault)
    IN /\ "config_changed" \in pending
       /\ config' = config
       /\ Commit(p, "config_changed")
       /\ Requeue("config_changed", p, TRUE)

PebbleReady(fault) ==
    LET p == on_free5gc_amf_pebble_ready(Start, fault)
    IN /\ config' = config
       /\ Commit(p, "pebble_ready")
       /\ Requeue("pebble_ready", p, FALSE)

PebbleReadyAgain(fault) ==
    LET p == on_free5gc_amf_pebble_ready(Start, fault)
    IN /\ "pebble_ready" \in pending
       /\ config' = config
       /\ Commit(p, "pebble_ready")
       /\ Requeue("pebble_ready", p, TRUE)

Remove(apiErr) ==
    LET p == on_remove(Start, apiErr)
    IN /\ config' = config
       /\ Commit(p, "remove")
       /\ pending' = pending

\* the workload container becomes reachable or unreachable
ConnChange ==
    /\ conn' = ~conn
    /\ UNCHANGED <<config, configFile, nad, annotations, layer, replans,
                   status, pending, calls, last>>

MaxConfigTriggers == 2
MaxConnLosses == 2

Init ==
    /\ config \in Configs
    /\ conn \in BOOLEAN
    /\ configFile = Absent
    /\ nad = Absent
    /\ annotations = InitialAnnotations
    /\ layer = Absent
    /\ replans = FALSE
    /\ status = NoStatus
    /\ pending = {}
    /\ calls = <<>>
    /\ last = [handler |-> "none", outcome |-> "none"]
    /\ budget = [config_changed |-> MaxConfigTriggers, conn_loss |-> MaxConnLosses]

\* a pass that finds the container unreachable issues no call, so the
\* environment has nothing to answer
Answers(S, none) == IF conn THEN S ELSE {none}

DoConfigChanged ==
    \E c \in Configs, nadErr \in Answers(BOOLEAN, FALSE),
       fault \in Answers(CCFaults, "none") :
        ConfigChanged(c, nadErr, fault)
DoConfigChangedAgain ==
    \E nadErr \in Answers(BOOLEAN, FALSE), fault \in Answers(CCFaults, "none") :
        ConfigChangedAgain(nadErr, fault)
DoPebbleReady == \E fault \in PRFaults : PebbleReady(fault)
DoPebbleReadyAgain == \E fault \in PRFaults : PebbleReadyAgain(fault)
DoRemove == \E apiErr \in BOOLEAN : Remove(apiErr)

Next ==
    \/ DoConfigChanged /\ UNCHANGED budget
    \/ DoConfigChangedAgain /\ UNCHANGED budget
    \/ DoPebbleReady /\ UNCHANGED budget
    \/ DoPebbleReadyAgain /\ UNCHANGED budget
    \/ DoRemove /\ UNCHANGED budget
    \/ ConnChange /\ UNCHANGED budget

Spec == Init /\ [][Next]_vars

(***************************************************************************)
(* Convergence.  One config-changed and one pebble-ready event are to be   *)
(* delivered, in either order; further config-changed events may follow.   *)
(* No cluster call fails and the charm is not removed.  The container may  *)
(* be lost MaxConnLosses times and is then reachable for good.  The        *)
(* dispatcher delivers every pending (deferred) event again.               *)
(***************************************************************************)
LiveInit ==
    /\ config \in Configs
    /\ conn \in BOOLEAN
    /\ configFile = Absent
    /\ nad = Absent
    /\ annotations = InitialAnnotations
    /\ layer = Absent
    /\ replans = FALSE
    /\ status = NoStatus
    /\ pending = Events
    /\ calls = <<>>
    /\ last = [handler |-> "none", outcome |-> "none"]
    /\ budget = [config_changed |-> MaxConfigTriggers, conn_loss |-> MaxConnLosses]

LiveConfigChanged ==
    /\ budget.config_changed > 0
    /\ budget' = [budget EXCEPT !.config_changed = @ - 1]
    /\ \E c \in Configs : ConfigChanged(c, FALSE, "none")

LiveConfigChangedAgain ==
    /\ ConfigChangedAgain(FALSE, "none")
    /\ UNCHANGED budget

LivePebbleReadyAgain ==
    /\ PebbleReadyAgain("none")
    /\ UNCHANGED budget

ConnLoss ==
    /\ conn
    /\ budget.conn_loss > 0
    /\ budget' = [budget EXCEPT !.conn_loss = @ - 1]
    /\ ConnChange

ConnBack ==
    /\ ~conn
    /\ ConnChange
    /\ UNCHANGED budget

LiveNext ==
    \/ LiveConfigChanged
    \/ LiveConfigChangedAgain
    \/ LivePebbleReadyAgain
    \/ ConnLoss
    \/ ConnBack

LiveSpec ==
    /\ LiveInit
    /\ [][LiveNext]_vars
    /\ WF_vars(LiveConfigChangedAgain)
    /\ WF_vars(LivePebbleReadyAgain)
    /\ WF_vars(ConnBack)


(***************************************************************************)
(* Properties.                                                             *)
(***************************************************************************)
ConfigChangedStep == DoConfigChanged \/ DoConfigChangedAgain
PebbleReadyStep == DoPebbleReady \/ DoPebbleReadyAgain
RemoveStep == DoRemove

Issued(log, op) == \E i \in DOMAIN log : log[i].op = op
IssuedWith(log, op, res) == \E i \in DOMAIN log : log[i] = [op |-> op, res |-> res]
ClusterOps == {"get_nad", "create_nad", "delete_nad", "get_sts", "patch_sts"}
SupervisorOps == {"add_layer", "replan"}
AnnotationAdded == annotations[MultusKey] # Absent

\* C1: a config-changed pass that finds the container unreachable issues no
\* call at all (no cluster call, no file write), sets the status to waiting,
\* defers the event, and leaves the attachment, the annotation and the
\* config file as they were.
C1_DeferralSafety ==
    [][(~conn /\ ConfigChangedStep) =>
          /\ calls' = <<>>
          /\ status' = WaitingContainer
          /\ last' = [handler |-> "config_changed", outcome |-> "defer"]
          /\ "config_changed" \in pending'
          /\ nad' = nad
          /\ annotations' = annotations
          /\ configFile' = configFile]_vars

C1_Witness ==
    /\ last = [handler |-> "config_changed", outcome |-> "defer"]
    /\ ~conn
    /\ calls = <<>>
    /\ status = WaitingContainer
    /\ nad # Absent
    /\ AnnotationAdded
    /\ configFile # Absent
    /\ configFile # Some(Render(SplitHead(config_ngap_cidr(config))))

\* C2: in a config-changed pass the annotation patch comes only after the
\* attachment was found present or was created in that same pass, and a
\* pass whose create call fails issues no patch.
C2_Ordering ==
    last.handler = "config_changed" =>
        /\ \A i \in DOMAIN calls :
              calls[i].op = "patch_sts" =>
                  \E j \in 1..(i - 1) :
                      /\ calls[j].op \in {"get_nad", "create_nad"}
                      /\ calls[j].res = "ok"
        /\ \A i \in DOMAIN calls :
              (calls[i].op = "create_nad" /\ calls[i].res # "ok") =>
                  ~Issued(calls, "patch_sts")

C2_Witness ==
    /\ last = [handler |-> "config_changed", outcome |-> "ok"]
    /\ \E i, j \in DOMAIN calls :
          /\ i < j
          /\ calls[i] = [op |-> "create_nad", res |-> "ok"]
          /\ calls[j] = [op |-> "patch_sts", res |-> "ok"]

\* C3: a config-changed pass that starts with the attachment and the
\* annotation present (any pass after the first successful one, absent
\* removal and tampering) issues no create and no patch and leaves both as
\* they were; and any pass issues a create only after its existence check
\* of the attachment did not answer present, and a patch only after
\* observing the annotation key absent.
C3_Idempotence ==
    [][ConfigChangedStep =>
          /\ (nad # Absent /\ AnnotationAdded) =>
                /\ ~Issued(calls', "create_nad")
                /\ ~Issued(calls', "patch_sts")
                /\ nad' = nad
                /\ annotations' = annotations
          /\ Issued(calls', "create_nad") =>
                (Issued(calls', "get_nad") /\ ~IssuedWith(calls', "get_nad", "ok"))
          /\ Issued(calls', "patch_sts") =>
                (IssuedWith(calls', "get_sts", "ok") /\ ~AnnotationAdded)]_vars

\* C4: a remove pass whose delete call is answered NotFound completes
\* normally: no error leaves the handler.
C4_TeardownTolerance ==
    (last.handler = "remove" /\ IssuedWith(calls, "delete_nad", "NotFound")) =>
        last.outcome = "ok"

\* C5: from whatever state it is invoked, a remove pass issues exactly one
\* call, the delete of the attachment, checks no precondition and never
\* defers.
C5_TeardownUnconditional ==
    /\ last.handler = "remove" =>
          /\ Len(calls) = 1
          /\ calls[1].op = "delete_nad"
          /\ last.outcome \in {"ok", "error"}
    /\ ENABLED RemoveStep

C5_Witness ==
    /\ last.handler = "remove"
    /\ calls = <<[op |-> "delete_nad", res |-> "NotFound"]>>
    /\ ~conn
    /\ configFile = Absent
    /\ status = WaitingContainer

\* C6: a pebble-ready pass that finds the container unreachable or the
\* config file missing issues no supervisor call, does not set the status to
\* active, and defers the event.
C6_WorkloadReadyPreconditions ==
    [][((~conn \/ configFile = Absent) /\ PebbleReadyStep) =>
          /\ calls' = <<>>
          /\ layer' = layer
          /\ replans' = replans
          /\ status' # ActiveStatus
          /\ status' = IF conn THEN WaitingConfigFile ELSE WaitingContainer
          /\ last' = [handler |-> "pebble_ready", outcome |-> "defer"]
          /\ "pebble_ready" \in pending']_vars

C6_Witness ==
    /\ last = [handler |-> "pebble_ready", outcome |-> "defer"]
    /\ conn
    /\ configFile = Absent
    /\ status = WaitingConfigFile
    /\ calls = <<>>
    /\ "pebble_ready" \in pending

\* C7: the service is declared to the supervisor only when the config file
\* exists: in every reachable state a declared layer, and a supervisor call
\* in the last pass, imply the config file is present.
C7_ConfigBeforeService ==
    /\ layer # Absent => configFile # Absent
    /\ (\E i \in DOMAIN calls : calls[i].op \in SupervisorOps) =>
          configFile # Absent

C7_Witness ==
    /\ layer = Some(PebbleLayer)
    /\ configFile # Absent
    /\ last.handler = "pebble_ready"
    /\ Issued(calls, "add_layer")

\* C8: a create call answered AlreadyExists counts as success: no error
\* leaves the handler and the pass goes on to the annotation step.
C8_IdempotentCreate ==
    \A i \in DOMAIN calls :
        calls[i] = [op |-> "create_nad", res |-> "AlreadyExists"] =>
            /\ last.outcome # "error"
            /\ \E j \in DOMAIN calls : j > i /\ calls[j].op = "get_sts"

\* C9: in a config-changed pass a cluster call that fails with anything
\* other than NotFound on a get is surfaced and ends the pass: it is the
\* last call of the pass and the outcome is an error.
C9_AbortOnClusterError ==
    last.handler = "config_changed" =>
        \A i \in DOMAIN calls :
            (calls[i].op \in ClusterOps /\ calls[i].res = "Error") =>
                (i = Len(calls) /\ last.outcome = "error")


\* C10: with no cluster error and no removal, a container that is in the
\* end reachable for good and a dispatcher that delivers every deferred
\* event again, the charm reaches and stays in the state: config file
\* written, attachment present, annotation present, service declared and
\* replanned, status active.
Converged ==
    /\ configFile # Absent
    /\ nad # Absent
    /\ AnnotationAdded
    /\ layer # Absent
    /\ replans
    /\ status = ActiveStatus

C10_Convergence == <>[]Converged


\* A step that leaves conn alone is a handler pass (ConnChange flips conn),
\* and last' names its handler.
PassOf(handler) == conn' = conn /\ last'.handler = handler

\* the pass record of a freshly deployed charm with the container reachable
InitialPass ==
    [conn |-> TRUE, configFile |-> Absent, nad |-> Absent,
     annotations |-> InitialAnnotations, layer |-> Absent, replans |-> FALSE,
     status |-> NoStatus, calls |-> <<>>, out |-> "run"]

\* what one uninterrupted config-changed pass makes of the initial state
Uninterrupted(c) == on_config_changed(InitialPass, c, FALSE, "none")

\* C11: when earlier passes with the same configuration were interrupted
\* after any prefix of their steps (whatever exists was made from that
\* configuration), a later complete pass ends with the config file, the
\* attachment and the annotation that one uninterrupted pass from the
\* initial state produces, and issues no create for an attachment that
\* exists and no patch for an annotation that is present.
C11_CrashSafety ==
    [][(/\ PassOf("config_changed")
        /\ last'.outcome = "ok"
        /\ nad \subseteq Some(NadObject(config'))
        /\ annotations[MultusKey] \subseteq Some(MultusAnnotation(config'))) =>
          /\ configFile' = Uninterrupted(config').configFile
          /\ nad' = Uninterrupted(config').nad
          /\ annotations' = Uninterrupted(config').annotations
          /\ nad # Absent => ~Issued(calls', "create_nad")
          /\ AnnotationAdded => ~Issued(calls', "patch_sts")]_vars

C11_Witness ==
    /\ last = [handler |-> "config_changed", outcome |-> "ok"]
    /\ calls = <<[op |-> "render", res |-> "ok"], [op |-> "push", res |-> "ok"],
                 [op |-> "get_nad", res |-> "ok"], [op |-> "get_sts", res |-> "ok"],
                 [op |-> "get_sts", res |-> "ok"], [op |-> "patch_sts", res |-> "ok"]>>
    /\ nad = Some(NadObject(config))
    /\ annotations = Uninterrupted(config).annotations
    /\ configFile = Uninterrupted(config).configFile


\* C12: when another actor edits the StatefulSet between the annotation
\* step's read and its patch, the patch is still sent and succeeds, and it
\* puts back what the step had read: the other actor's edit is lost.
C12_LostUpdate ==
    \A i \in DOMAIN calls :
        calls[i].op = "external_edit" =>
            /\ i > 1
            /\ calls[i - 1] = [op |-> "get_sts", res |-> "ok"]
            /\ i < Len(calls)
            /\ calls[i + 1] = [op |-> "patch_sts", res |-> "ok"]
            /\ AnnotationAdded
            /\ annotations # ExternalEdit(annotations)
            /\ \A k \in AnnotationKeys \ {MultusKey} :
                  annotations[k] = InitialAnnotations[k]

C12_Witness ==
    /\ last = [handler |-> "config_changed", outcome |-> "ok"]
    /\ Issued(calls, "external_edit")
    /\ IssuedWith(calls, "patch_sts", "ok")
    /\ annotations["juju.is/version"] = Some("3.1")
    /\ ExternalEdit(InitialAnnotations)["juju.is/version"] = Some("3.2")


RenderedFrom(c) == Some(Render(SplitHead(config_ngap_cidr(c))))

\* Once the attachment exists its spec stays what the configuration in
\* force at its creation made it, once the annotation key is present its
\* value stays what the configuration in force at the patch made it; the
\* only calls on the attachment are get, create and delete, and a present
\* annotation is never patched again.
NoDrift ==
    /\ (nad # Absent /\ nad' # Absent) => nad' = nad
    /\ (nad = Absent /\ nad' # Absent) => nad' = Some(NadObject(config'))
    /\ AnnotationAdded => annotations'[MultusKey] = annotations[MultusKey]
    /\ (~AnnotationAdded /\ annotations'[MultusKey] # Absent) =>
          annotations'[MultusKey] = Some(MultusAnnotation(config'))
    /\ \A i \in DOMAIN calls' :
          calls'[i].op \in {"render", "push", "get_nad", "create_nad", "delete_nad",
                            "get_sts", "external_edit", "patch_sts",
                            "add_layer", "replan"}
    /\ (PassOf("config_changed") /\ Issued(calls', "patch_sts")) => ~AnnotationAdded

\* C13 as stated: no drift is ever reconciled, while the config file, once
\* written, reflects the latest configuration after every config-changed
\* pass.
C13_NoDriftFileLatest ==
    [][/\ NoDrift
       /\ (PassOf("config_changed") /\ configFile # Absent) =>
             configFile' = RenderedFrom(config')]_vars

\* C13 as amended: no drift is ever reconciled, while the config file
\* reflects the latest configuration after every config-changed pass that
\* is not deferred and whose render and push succeed.
C13_NoDrift ==
    [][/\ NoDrift
       /\ (/\ PassOf("config_changed")
           /\ last'.outcome # "defer"
           /\ ~IssuedWith(calls', "render", "Error")
           /\ ~IssuedWith(calls', "push", "Error")) =>
             configFile' = RenderedFrom(config')]_vars

C13_Witness ==
    /\ last = [handler |-> "config_changed", outcome |-> "ok"]
    /\ nad # Absent
    /\ nad # Some(NadObject(config))
    /\ AnnotationAdded
    /\ annotations[MultusKey] # Some(MultusAnnotation(config))
    /\ configFile = RenderedFrom(config)
    /\ calls = <<[op |-> "render", res |-> "ok"], [op |-> "push", res |-> "ok"],
                 [op |-> "get_nad", res |-> "ok"], [op |-> "get_sts", res |-> "ok"]>>


\* C14 as stated: every config-changed pass that finds the container
\* reachable renders and writes the config file before any cluster call,
\* whatever exists already, and after it the config file holds the content
\* rendered from the current configuration.
C14_WriteFirstAlways ==
    [][(PassOf("config_changed") /\ conn) =>
          /\ Len(calls') >= 2
          /\ calls'[1] = [op |-> "render", res |-> "ok"]
          /\ calls'[2] = [op |-> "push", res |-> "ok"]
          /\ \A i \in DOMAIN calls' : calls'[i].op \in ClusterOps => i > 2
          /\ configFile' = RenderedFrom(config')]_vars

\* C14 as amended: every config-changed pass that finds the container
\* reachable starts with the render and, when that succeeds, the push, before
\* any cluster call, whatever exists already; when both succeed the config
\* file holds after the pass the content rendered from the current
\* configuration, and when either fails the pass issues no cluster call.
C14_WriteFirst ==
    [][(PassOf("config_changed") /\ conn) =>
          /\ Len(calls') >= 1
          /\ calls'[1].op = "render"
          /\ calls'[1].res = "ok" => (Len(calls') >= 2 /\ calls'[2].op = "push")
          /\ \A i \in DOMAIN calls' :
                calls'[i].op \in ClusterOps =>
                    /\ i > 2
                    /\ calls'[1] = [op |-> "render", res |-> "ok"]
                    /\ calls'[2] = [op |-> "push", res |-> "ok"]
          /\ IssuedWith(calls', "push", "ok") =>
                configFile' = RenderedFrom(config')
          /\ ~IssuedWith(calls', "push", "ok") =>
                (configFile' = configFile /\ last'.outcome = "error")]_vars

C14_Witness ==
    /\ last = [handler |-> "config_changed", outcome |-> "ok"]
    /\ calls = <<[op |-> "render", res |-> "ok"], [op |-> "push", res |-> "ok"],
                 [op |-> "get_nad", res |-> "ok"], [op |-> "get_sts", res |-> "ok"]>>
    /\ configFile = RenderedFrom(config)
    /\ nad # Some(NadObject(config))
    /\ layer # Absent


\* C15: when rendering fails in a config-changed pass, the pass aborts with
\* the error surfaced, the config file on disk (if any) keeps its previous
\* content, and the pass issues no cluster call (get, create, patch) and no
\* other call at all, so the attachment and the annotations stay as they were.
C15_RenderFailure ==
    [][(PassOf("config_changed") /\ IssuedWith(calls', "render", "Error")) =>
          /\ last'.outcome = "error"
          /\ calls' = <<[op |-> "render", res |-> "Error"]>>
          /\ configFile' = configFile
          /\ nad' = nad
          /\ annotations' = annotations
          /\ UNCHANGED <<layer, replans, status>>]_vars

C15_Witness ==
    /\ last = [handler |-> "config_changed", outcome |-> "error"]
    /\ calls = <<[op |-> "render", res |-> "Error"]>>
    /\ configFile # Absent
    /\ configFile # RenderedFrom(config)
    /\ nad = Absent


SetsActive == PassOf("pebble_ready") /\ last'.outcome = "ok"

\* C16: the status is set to active only by a pebble-ready pass that has
\* passed both preconditions (container reachable, config file present) and
\* has issued the service declaration followed by the apply/restart request,
\* in that order; a pass in which either supervisor call fails does not set
\* the status to active, and no step of another entry point sets it to active.
C16_ActiveAfterSupervisor ==
    [][/\ SetsActive =>
            /\ conn /\ configFile # Absent
            /\ calls' = <<[op |-> "add_layer", res |-> "ok"],
                          [op |-> "replan", res |-> "ok"]>>
            /\ status' = ActiveStatus
       /\ (PassOf("pebble_ready") /\ \E i \in DOMAIN calls' : calls'[i].res = "Error") =>
            (last'.outcome = "error" /\ status' = status)
       /\ (status' = ActiveStatus /\ status # ActiveStatus) => SetsActive]_vars

C16_Witness ==
    /\ last = [handler |-> "pebble_ready", outcome |-> "ok"]
    /\ calls = <<[op |-> "add_layer", res |-> "ok"], [op |-> "replan", res |-> "ok"]>>
    /\ status = ActiveStatus
    /\ layer = Some(PebbleLayer)
    /\ replans


\* C17: a remove pass changes nothing except the attachment: the annotations,
\* the config file, the declared service and the status are as before, so
\* after a successful removal from a state with the annotation present the
\* annotation still names the attachment while the attachment is absent; a
\* config-changed pass from such a state never patches the annotation, and
\* when it completes it has created the attachment again.
C17_RemovalFrame ==
    [][/\ PassOf("remove") =>
            /\ UNCHANGED <<annotations, configFile, layer, replans, status,
                           config, pending>>
            /\ \A i \in DOMAIN calls' : calls'[i].op = "delete_nad"
            /\ last'.outcome = "ok" => nad' = Absent
       /\ (PassOf("config_changed") /\ nad = Absent /\ AnnotationAdded) =>
            /\ ~Issued(calls', "patch_sts")
            /\ annotations' = annotations
            /\ last'.outcome = "ok" =>
                  /\ IssuedWith(calls', "create_nad", "ok")
                  /\ nad' = Some(NadObject(config'))]_vars

\* the annotation was present and the attachment absent, which only a
\* removal leaves behind; the pass created the attachment and did not patch
C17_Witness ==
    /\ last = [handler |-> "config_changed", outcome |-> "ok"]
    /\ calls = <<[op |-> "render", res |-> "ok"], [op |-> "push", res |-> "ok"],
                 [op |-> "get_nad", res |-> "NotFound"],
                 [op |-> "create_nad", res |-> "ok"],
                 [op |-> "get_sts", res |-> "ok"]>>
    /\ annotations[MultusKey] # Absent
    /\ nad = Some(NadObject(config))

\* C18: a config-changed pass that is not deferred issues no supervisor call
\* and leaves the status (and the declared service) as it was; the status
\* changes to a waiting status only in a deferred pass and to active only in
\* a successful pebble-ready pass, so a waiting status set by a deferred
\* config-changed pass is still there after its successful re-run.
C18_StatusFrame ==
    [][/\ (PassOf("config_changed") /\ last'.outcome # "defer") =>
            /\ status' = status
            /\ \A i \in DOMAIN calls' : calls'[i].op \notin SupervisorOps
            /\ UNCHANGED <<layer, replans>>
       /\ status' # status =>
            \/ /\ status' \in {WaitingContainer, WaitingConfigFile}
               /\ last'.outcome = "defer"
               /\ PassOf("config_changed") \/ PassOf("pebble_ready")
            \/ status' = ActiveStatus /\ SetsActive
       /\ (PassOf("config_changed") /\ last'.outcome = "defer") =>
            status' = WaitingContainer]_vars

\* no pebble-ready pass has been deferred or has succeeded, so the waiting
\* status is the one a deferred config-changed pass set, and the re-run of
\* that pass has succeeded
C18_Witness ==
    /\ last = [handler |-> "config_changed", outcome |-> "ok"]
    /\ status = WaitingContainer
    /\ pending = {}
    /\ layer = Absent
    /\ configFile = RenderedFrom(config)
    /\ annotations[MultusKey] # Absent

=============================================================================
